---- MODULE Spec2Model ----
(***************************************************************************)
(* Replication of ClickHouse tables into PostgreSQL: the Batching          *)
(* extractor (batch.go), the table configuration (config.go) and the       *)
(* concurrent pipeline main / SynchronizeTable / MoveTemporaryTable /      *)
(* CreatePostgresTable / MakeTemporaryTable (main.go, the version that     *)
(* runs Batching in a goroutine feeding a channel).                        *)
(*                                                                         *)
(* Rows are tuples aligned to the table's column order.  Times are counted *)
(* in ticks, TicksPerSecond ticks to a second; tick 0 is the zero time.    *)
(***************************************************************************)
EXTENDS Integers, Sequences, FiniteSets, TLC

\* ------------------------------------------------------------------ bounds
MaxKey == 3
MaxSubKey == 2
MaxRows == 5
MaxBatchSize == 2
MaxTime == 3
MaxCursorRows == 2
TicksPerSecond == 2
MaxMergeKey == 3
MaxDestRows == 2
MaxStaging == 2
MaxPipelineRows == 2
MaxRuns == 2
MaxWrites == 1
PoolSize == 2

VARIABLES
  \* the two stores
  clickhouse,   \* ClickHouse: source name -> set of rows (what SELECT ... FINAL sees)
  pg,           \* PostgreSQL: destination name -> [exists, pkey, rows]
  temp,         \* the temporary (staging) tables: name -> rows copied into it
  \* main
  config,       \* Config: [Tables, BatchSize]
  only,         \* the -only flag ("" when not given)
  drop,         \* the -drop flag ("" when not given)
  mpc,          \* position of main
  idx,          \* index of the range loop over config.Tables
  table,        \* the loop's copy of config.Tables[idx], the argument of the calls
  now,          \* the wall clock, in ticks
  saved,        \* the configurations config.Save has written, in order
  runs,         \* per table: how its iteration ended and what its extraction returned
  \* SynchronizeTable
  spc,          \* position of SynchronizeTable's own goroutine
  closed,       \* whether the batches channel is closed
  workers,      \* the goroutines started for the batches, in start order
  \* Batching
  bpc,          \* position of Batching
  query,        \* batch.go line 15
  count,        \* line 26
  total,        \* line 32
  offset,       \* line 33
  pk,           \* line 35
  batch,        \* line 49, the page handed to onBatch
  bret,         \* what Batching returned: [total, err]
  \* observations
  issued,       \* the queries sent to ClickHouse by the current call of Batching
  emitted,      \* the batches handed to onBatch by the current call, in order
  injected,     \* whether the environment made a store operation fail
  applied       \* the calls of MoveTemporaryTable made directly: [before, after, ok, failed, err]

\* What Batching reads but never writes.
benv == <<clickhouse, config, table>>
\* What only main, SynchronizeTable and the workers write.
mvars == <<only, drop, mpc, idx, now, saved, runs>>
svars == <<spc, closed, workers>>
dvars == <<pg, temp, applied>>
\* Everything outside Batching.
outer == <<mvars, svars, dvars>>

vars == <<clickhouse, pg, temp, config, only, drop, mpc, idx, table, now, saved,
          runs, spc, closed, workers, bpc, query, count, total, offset, pk,
          batch, bret, issued, emitted, injected, applied>>

\* ------------------------------------------------------------- config.go
\* The three columns of every modelled table, in declaration order.
ColumnsOf(pa, pb) ==
  << [Source |-> "src_a", Destination |-> "a", Primary |-> pa],
     [Source |-> "src_b", Destination |-> "b", Primary |-> pb],
     [Source |-> "src_v", Destination |-> "v", Primary |-> FALSE] >>

MakeTable(src, dst, pa, pb, ccol, last) ==
  [Source |-> src, Destination |-> dst, Indexes |-> <<>>,
   Columns |-> ColumnsOf(pa, pb), Cursor |-> [Column |-> ccol, LastSync |-> last]]

GetSourceColumns(t) == [i \in 1..Len(t.Columns) |-> t.Columns[i].Source]

GetDestinationColumns(t) == [i \in 1..Len(t.Columns) |-> t.Columns[i].Destination]

PrimaryIndexes(t) == {i \in 1..Len(t.Columns) : t.Columns[i].Primary}

RECURSIVE SelectNames(_, _)
SelectNames(cols, i) ==
  IF i > Len(cols) THEN <<>>
  ELSE (IF cols[i].Primary THEN <<cols[i].Destination>> ELSE <<>>)
       \o SelectNames(cols, i + 1)

GetPrimaryKey(t) == SelectNames(t.Columns, 1)

\* ------------------------------------------------------------ time.Time
IsZero(t) == t = 0

\* LastSync.Format(time.DateTime): "2006-01-02 15:04:05" has no fraction of a
\* second, so the rendered instant is the start of LastSync's second.
Format(t) == (t \div TicksPerSecond) * TicksPerSecond

\* ------------------------------------------------------------- helpers
Min(a, b) == IF a < b THEN a ELSE b

Keys == (1..MaxKey) \X (1..MaxSubKey)

\* Rows of a table that is read in full: the third column plays no part.
PlainRows == {<<k[1], k[2], 0>> : k \in Keys}

\* Rows of a table read through its cursor column (the third column).
StampedRows == {<<k[1], k[2], t>> : k \in {1, 2} \X {1, 2}, t \in 0..MaxTime}

RECURSIVE SubsetsUpTo(_, _)
SubsetsUpTo(S, n) ==
  IF n = 0 THEN {{}}
  ELSE LET prev == SubsetsUpTo(S, n - 1)
       IN prev \cup {P \cup {x} : P \in prev, x \in S}

KeyOf(r, idxs) == [i \in idxs |-> r[i]]

UniqueOn(S, idxs) == \A r1, r2 \in S : KeyOf(r1, idxs) = KeyOf(r2, idxs) => r1 = r2

\* The source tables a configuration can face: FINAL leaves one row per
\* (a, b), and one row per declared primary key when one is declared.
SourcesOf(t, universe, n) ==
  {S \in SubsetsUpTo(universe, n) :
     /\ UniqueOn(S, {1, 2})
     /\ PrimaryIndexes(t) # {} => UniqueOn(S, PrimaryIndexes(t))}

\* Index of the column whose source name is `name` (0 when there is none).
SourceIndex(t, name) ==
  IF \E i \in 1..Len(t.Columns) : t.Columns[i].Source = name
  THEN CHOOSE i \in 1..Len(t.Columns) : t.Columns[i].Source = name
  ELSE 0

\* --------------------------------------------------------------- batch.go
\* Lines 15-23: the SELECT, with the cursor filter when the table has a
\* cursor column and LastSync is not the zero time.
Query(t) ==
  IF t.Cursor.Column # "" /\ ~IsZero(t.Cursor.LastSync)
  THEN [from |-> t.Source, where |-> TRUE, column |-> t.Cursor.Column,
        than |-> Format(t.Cursor.LastSync)]
  ELSE [from |-> t.Source, where |-> FALSE, column |-> "", than |-> 0]

\* What ClickHouse selects for a query.
Select(t, q) ==
  IF q.where
  THEN {r \in clickhouse[q.from] : r[SourceIndex(t, q.column)] > q.than}
  ELSE clickhouse[q.from]

\* Lines 35-41: the source name of the first primary column, "" when none.
FirstPrimary(t) ==
  IF PrimaryIndexes(t) = {} THEN ""
  ELSE LET i == CHOOSE i \in PrimaryIndexes(t) : \A j \in PrimaryIndexes(t) : i <= j
       IN t.Columns[i].Source

\* The orders in which `ORDER BY <col i>` may return S: rows with equal
\* values of the ordering column come in an order the store does not fix.
RECURSIVE Orderings(_, _)
Orderings(S, i) ==
  IF S = {} THEN {<<>>}
  ELSE UNION {{<<r>> \o s : s \in Orderings(S \ {r}, i)} :
                r \in {x \in S : \A y \in S : x[i] <= y[i]}}

\* A page query that forgets its LIMIT.
LimitOffsetUnlimited(s, n, off) == SubSeq(s, off + 1, Len(s))

\* LIMIT n OFFSET off of an ordered result.
LimitOffset(s, n, off) == SubSeq(s, off + 1, Min(off + n, Len(s)))

\* Line 75 after an empty page.  No source holds more than MaxRows rows, so
\* every offset from MaxRows on selects the empty page: such offsets are
\* kept up to their remainder, which the next addition always changes.
PastEnd(o) ==
  IF o < MaxRows THEN o ELSE MaxRows + ((o - MaxRows) % (MaxBatchSize + 1))

BatchingReturn(tot, err) ==
  /\ bpc' = "returned"
  /\ bret' = [total |-> tot, err |-> err]

\* Lines 15-41: build the query, run the count query.
BatchingStart ==
  /\ bpc = "start"
  /\ query' = Query(table)
  /\ issued' = issued \cup {[kind |-> "count", query |-> Query(table)]}
  /\ \E ok \in BOOLEAN :
       /\ injected' = (injected \/ ~ok)
       /\ IF ok
          THEN /\ count' = Cardinality(Select(table, Query(table)))
               /\ total' = 0
               /\ offset' = 0
               /\ pk' = FirstPrimary(table)
               /\ bpc' = "loop"
               /\ UNCHANGED bret
          ELSE /\ BatchingReturn(0, TRUE)
               /\ UNCHANGED <<count, total, offset, pk>>
  /\ UNCHANGED <<benv, outer, batch, emitted>>

\* Lines 43, 78: the loop's exit.
BatchingDone ==
  /\ bpc = "loop"
  /\ ~(total < count)
  /\ BatchingReturn(total, FALSE)
  /\ UNCHANGED <<benv, outer, query, count, total, offset, pk, batch, issued,
                 emitted, injected>>

\* Lines 44-68: one page query and the scan of its rows.  An empty ORDER BY
\* column makes the statement malformed, so the query returns an error.
BatchingPage ==
  /\ bpc = "loop"
  /\ total < count
  /\ issued' = issued \cup {[kind |-> "page", query |-> query]}
  /\ \E ok \in BOOLEAN :
       /\ injected' = (injected \/ ~ok)
       /\ IF ok /\ pk # ""
          THEN \E s \in Orderings(Select(table, query), SourceIndex(table, pk)) :
                 LET page == LimitOffset(s, config.BatchSize, offset) IN
                 /\ batch' = page
                 /\ IF Len(page) > 0
                    THEN total' = total + Len(page) /\ bpc' = "onBatch"
                         /\ UNCHANGED offset
                    ELSE offset' = PastEnd(offset + config.BatchSize)
                         /\ UNCHANGED <<total, bpc>>
                 /\ UNCHANGED bret
          ELSE /\ BatchingReturn(0, TRUE)
               /\ UNCHANGED <<total, offset, batch>>
  /\ UNCHANGED <<benv, outer, query, count, pk, emitted>>

\* Lines 60-62: rows.Scan fails on a row of the page.
BatchingScanFails ==
  /\ bpc = "loop"
  /\ total < count
  /\ pk # ""
  /\ Select(table, query) # {}
  /\ issued' = issued \cup {[kind |-> "page", query |-> query]}
  /\ injected' = TRUE
  /\ BatchingReturn(0, TRUE)
  /\ UNCHANGED <<benv, outer, query, count, total, offset, pk, batch, emitted>>

\* Lines 70-75: onBatch has been called with the page; `err` is its result.
AfterOnBatch(err) ==
  /\ emitted' = Append(emitted, batch)
  /\ IF err
     THEN /\ BatchingReturn(0, TRUE)
          /\ UNCHANGED offset
     ELSE /\ offset' = offset + config.BatchSize
          /\ bpc' = "loop"
          /\ UNCHANGED bret
  /\ UNCHANGED <<query, count, total, pk, batch, issued>>

\* Batching called with a callback that records the batch and may fail.
BatchingOnBatch ==
  /\ bpc = "onBatch"
  /\ \E err \in BOOLEAN :
       /\ AfterOnBatch(err)
       /\ injected' = (injected \/ err)
  /\ UNCHANGED <<benv, outer>>

\* ------------------------------------------- main.go: MoveTemporaryTable
Range(s) == {s[i] : i \in DOMAIN s}

\* The positions of the columns whose destination names are listed.
DestinationIndexes(t, names) ==
  {i \in 1..Len(t.Columns) : t.Columns[i].Destination \in Range(names)}

\* Lines 178-181: the SET list names every destination column.
UpdateColumns(t) == GetDestinationColumns(t)

\* A conflict resolved by DO NOTHING instead of DO UPDATE.
KeepExisting(t, old, excluded) == old

\* ON CONFLICT ... DO UPDATE SET c = EXCLUDED.c for the columns of the SET list.
Updated(t, old, excluded) ==
  [i \in 1..Len(t.Columns) |->
     IF t.Columns[i].Destination \in Range(UpdateColumns(t)) THEN excluded[i] ELSE old[i]]

\* SELECT DISTINCT ON (keys) * without ORDER BY: one row for each key of the
\* staging table; which of the rows sharing a key is the one kept is not
\* fixed by the statement.
DistinctOn(rows, idxs) ==
  {D \in SUBSET rows :
     /\ UniqueOn(D, idxs)
     /\ \A r \in rows : \E d \in D : KeyOf(d, idxs) = KeyOf(r, idxs)}

\* INSERT INTO destination <picked> ON CONFLICT (keys) DO UPDATE ...
Upsert(t, destRows, picked, idxs) ==
  LET conflicts(p) == {old \in destRows : KeyOf(old, idxs) = KeyOf(p, idxs)} IN
  {old \in destRows : \A p \in picked : KeyOf(old, idxs) # KeyOf(p, idxs)}
    \cup {p \in picked : conflicts(p) = {}}
    \cup UNION {{Updated(t, old, p) : old \in conflicts(p)} : p \in picked}

\* The statement of lines 184-194 is rejected by PostgreSQL: with no primary
\* column DISTINCT ON () and ON CONFLICT () are malformed; without a unique
\* constraint on the key columns ON CONFLICT has nothing to target.
MergeRejected(t, d) == GetPrimaryKey(t) = <<>> \/ ~d.exists \/ ~d.pkey

\* The destination rows the statement may leave.
MergeOutcomes(t, destRows, stagingRows) ==
  LET idxs == DestinationIndexes(t, GetPrimaryKey(t)) IN
  {Upsert(t, destRows, D, idxs) : D \in DistinctOn(stagingRows, idxs)}

MergeSucceeds(t, tableName, ok) ==
  ok /\ tableName \in DOMAIN temp /\ ~MergeRejected(t, pg[t.Destination])

\* Lines 177-203: the effect of MoveTemporaryTable on PostgreSQL; `ok` is
\* whether the store executes the statement at all.
MoveTemporaryTable(t, tableName, ok) ==
  IF MergeSucceeds(t, tableName, ok)
  THEN \E rows \in MergeOutcomes(t, pg[t.Destination].rows, temp[tableName]) :
         pg' = [pg EXCEPT ![t.Destination].rows = rows]
  ELSE UNCHANGED pg

\* Lines 196-202: the error of conn.Exec is logged; the function ends with
\* `return nil` whether the statement failed or not.
MoveTemporaryTableError(failed) == FALSE

\* ------------------------------------------------------- main.go: main
Absent == [exists |-> FALSE, pkey |-> FALSE, rows |-> {}]

\* Line 54: the -only filter.
Skipped(t) == only # "" /\ only # t.Source

\* Lines 61-65: the cursor is reset on the loop's copy of the table.
CursorReset(t) ==
  IF t.Cursor.Column # "" /\ (IsZero(t.Cursor.LastSync) \/ drop = t.Source)
  THEN [t EXCEPT !.Cursor.LastSync = 0]
  ELSE t

\* Line 73: the -drop flag names this table.
Dropping(t) == drop # "" /\ drop = t.Source

\* A cursor update that loses track of the table it belongs to.
AdvanceEveryCursor(cfg, i, t) ==
  [cfg EXCEPT !.Tables = [j \in 1..Len(cfg.Tables) |->
                            [cfg.Tables[j] EXCEPT !.Cursor.LastSync = t]]]

\* Line 88: config.Tables[idx].Cursor.LastSync = now.
AdvanceCursor(cfg, i, t) == [cfg EXCEPT !.Tables[i].Cursor.LastSync = t]

BatchingLocalsZero ==
  /\ query = [from |-> "", where |-> FALSE, column |-> "", than |-> 0]
  /\ count = 0
  /\ total = 0
  /\ offset = 0
  /\ pk = ""
  /\ batch = <<>>
  /\ bret = [total |-> 0, err |-> FALSE]
  /\ issued = {}
  /\ emitted = <<>>

\* The locals of a fresh call of Batching.
BatchingEntered ==
  /\ bpc' = "start"
  /\ query' = [from |-> "", where |-> FALSE, column |-> "", than |-> 0]
  /\ count' = 0
  /\ total' = 0
  /\ offset' = 0
  /\ pk' = ""
  /\ batch' = <<>>
  /\ bret' = [total |-> 0, err |-> FALSE]
  /\ issued' = {}
  /\ emitted' = <<>>

bvars == <<bpc, query, count, total, offset, pk, batch, bret, issued, emitted>>

\* Lines 48-57: the table is skipped.
MainSkip ==
  /\ mpc = "loop"
  /\ idx <= Len(config.Tables)
  /\ Skipped(config.Tables[idx])
  /\ table' = config.Tables[idx]
  /\ runs' = [runs EXCEPT ![idx].status = "skipped"]
  /\ idx' = idx + 1
  /\ UNCHANGED <<clickhouse, config, only, drop, mpc, now, saved, svars, dvars,
                 bvars, injected>>

\* Lines 48-81: the table is not skipped; its cursor is reset on the copy,
\* the destination is dropped when asked, SynchronizeTable is called.
MainBegin ==
  /\ mpc = "loop"
  /\ idx <= Len(config.Tables)
  /\ ~Skipped(config.Tables[idx])
  /\ now' = now + 1
  /\ table' = CursorReset(config.Tables[idx])
  /\ \E ok \in (IF Dropping(config.Tables[idx]) THEN BOOLEAN ELSE {FALSE}) :
       /\ pg' = IF ok THEN [pg EXCEPT ![config.Tables[idx].Destination] = Absent] ELSE pg
       /\ injected' = (injected \/ (Dropping(config.Tables[idx]) /\ ~ok))
  /\ runs' = [runs EXCEPT ![idx].status = "running"]
  /\ mpc' = "sync"
  /\ spc' = "create"
  /\ UNCHANGED <<clickhouse, config, only, drop, idx, saved, closed, workers,
                 temp, applied, bvars>>

\* ------------------------------------------- main.go: CreatePostgresTable
\* Lines 206-232: what CREATE TABLE IF NOT EXISTS and ALTER TABLE ADD PRIMARY
\* KEY leave, `okAlter` being whether the store accepts the ALTER; it is
\* refused anyway when the table has a primary key already or holds two
\* rows with the same key.
CreatePostgresTable(t, d, okAlter) ==
  LET made == IF d.exists THEN d ELSE [exists |-> TRUE, pkey |-> FALSE, rows |-> {}]
      idxs == DestinationIndexes(t, GetPrimaryKey(t))
  IN IF Len(GetPrimaryKey(t)) > 0 /\ okAlter /\ ~made.pkey /\ UniqueOn(made.rows, idxs)
     THEN [made EXCEPT !.pkey = TRUE]
     ELSE made

\* Whether PostgreSQL can accept ADD PRIMARY KEY at all: not on a table that
\* has a primary key, nor on one holding two rows with the same key.
AlterAcceptable(t, d) ==
  /\ ~(d.exists /\ d.pkey)
  /\ d.exists => UniqueOn(d.rows, DestinationIndexes(t, GetPrimaryKey(t)))

\* The answers ADD PRIMARY KEY can get (none asked without primary column).
AlterOutcomes(t, d) ==
  IF Len(GetPrimaryKey(t)) = 0 THEN {TRUE}
  ELSE IF AlterAcceptable(t, d) THEN BOOLEAN
  ELSE {FALSE}

Statement(stmt, name, ok) == [stmt |-> stmt, name |-> name, ok |-> ok]

\* A CreatePostgresTable that gives up at the first index it cannot create.
SchemaStatementsUntilFailure(t, okAlter, okIndexes) ==
  <<Statement("CREATE TABLE", t.Destination, TRUE)>>
    \o (IF Len(GetPrimaryKey(t)) > 0
        THEN <<Statement("ADD PRIMARY KEY", t.Destination, okAlter)>> ELSE <<>>)
    \o [i \in 1..Cardinality({j \in 1..Len(t.Indexes) :
                                \A k \in 1..(j - 1) : okIndexes[k]}) |->
          Statement("CREATE INDEX", t.Indexes[i].Name, okIndexes[i])]

\* Lines 213-248: the statements CreatePostgresTable sends once CREATE TABLE
\* went through, with what the store answered: ADD PRIMARY KEY when there is
\* a primary key, then CREATE INDEX for every index of the table.
SchemaStatements(t, okAlter, okIndexes) ==
  <<Statement("CREATE TABLE", t.Destination, TRUE)>>
    \o (IF Len(GetPrimaryKey(t)) > 0
        THEN <<Statement("ADD PRIMARY KEY", t.Destination, okAlter)>> ELSE <<>>)
    \o [i \in 1..Len(t.Indexes) |->
          Statement("CREATE INDEX", t.Indexes[i].Name, okIndexes[i])]

\* ---------------------------------------------- main.go: SynchronizeTable
\* Line 116: make(chan [][]interface{}) has no buffer.
ChannelCapacity == 0

NewWorker(b) ==
  [pc |-> "acquire", batch |-> b, conn |-> 0, failed |-> {},
   moved |-> FALSE, merged |-> FALSE, steps |-> <<>>]

\* Lines 110-113: CREATE TABLE fails, SynchronizeTable returns the error.
SyncCreateFails ==
  /\ mpc = "sync"
  /\ spc = "create"
  /\ spc' = "idle"
  /\ mpc' = "syncfailed"
  /\ injected' = TRUE
  /\ runs' = [runs EXCEPT ![idx].ddl =
                 <<Statement("CREATE TABLE", table.Destination, FALSE)>>]
  /\ UNCHANGED <<benv, only, drop, idx, now, saved, closed, workers, dvars, bvars>>

\* Lines 110-130: the destination is ensured, the channel is made and the
\* extraction goroutine is started.
SyncCreateTable ==
  /\ mpc = "sync"
  /\ spc = "create"
  /\ \E okAlter \in AlterOutcomes(table, pg[table.Destination]),
        okIndexes \in [1..Len(table.Indexes) -> BOOLEAN] :
       /\ pg' = [pg EXCEPT ![table.Destination] =
                   CreatePostgresTable(table, pg[table.Destination], okAlter)]
       /\ runs' = [runs EXCEPT ![idx].ddl = SchemaStatements(table, okAlter, okIndexes)]
       /\ injected' = (\/ injected
                        \/ (~okAlter /\ AlterAcceptable(table, pg[table.Destination]))
                        \/ \E i \in DOMAIN okIndexes : ~okIndexes[i])
  /\ spc' = "range"
  /\ closed' = FALSE
  /\ workers' = <<>>
  /\ temp' = <<>>
  /\ BatchingEntered
  /\ UNCHANGED <<benv, only, drop, mpc, idx, now, saved, applied>>

\* Lines 119, 125-129: Batching has returned; its error is logged and the
\* deferred close(batches) runs.
ExtractorExit ==
  /\ spc # "idle"
  /\ bpc = "returned"
  /\ bpc' = "exited"
  /\ closed' = TRUE
  /\ runs' = [runs EXCEPT ![idx].extractErr = bret.err]
  /\ UNCHANGED <<benv, only, drop, mpc, idx, now, saved, spc, workers, dvars,
                 query, count, total, offset, pk, batch, bret, issued, emitted,
                 injected>>

\* Lines 120-123 and 133-136: the callback's send on the unbuffered channel
\* meets the range loop's receive; the loop starts a goroutine for the batch.
SyncDispatch ==
  /\ spc = "range"
  /\ bpc = "onBatch"
  /\ AfterOnBatch(FALSE)
  /\ workers' = Append(workers, NewWorker(batch))
  /\ UNCHANGED <<benv, mvars, spc, closed, dvars, injected>>

\* Lines 133, 169: the channel is closed and drained, the loop ends.
SyncRangeEnd ==
  /\ spc = "range"
  /\ closed
  /\ spc' = "wait"
  /\ UNCHANGED <<benv, mvars, closed, workers, dvars, bvars, injected>>

\* A SynchronizeTable that reports the failure of one of its batches.
ReturnsBatchError(ws) == \E i \in DOMAIN ws : ws[i].failed # {}

\* Line 173: whether SynchronizeTable returns an error once the workers are done.
ReturnsError(ws) == FALSE

\* A wg.Wait() that does not wait.
WaitReturnsAtOnce(ws) == TRUE

\* Lines 134, 137, 169: wg.Wait() returns when every goroutine that was added
\* has run its deferred wg.Done().
WaitReturns(ws) == \A i \in DOMAIN ws : ws[i].pc = "done"

\* Lines 169-173: wg.Wait() is over, SynchronizeTable returns.
SyncReturn ==
  /\ spc = "wait"
  /\ WaitReturns(workers)
  /\ spc' = "idle"
  /\ mpc' = IF ReturnsError(workers) THEN "syncfailed" ELSE "synced"
  /\ runs' = [runs EXCEPT
               ![idx].batchesFailed =
                  Cardinality({i \in DOMAIN workers : workers[i].failed # {}}),
               ![idx].batchesMerged =
                  Cardinality({i \in DOMAIN workers : workers[i].failed = {}})]
  /\ UNCHANGED <<benv, only, drop, idx, now, saved, closed, workers, dvars,
                 bvars, injected>>

\* Lines 81-84: SynchronizeTable returned an error, the loop continues.
MainSyncFailed ==
  /\ mpc = "syncfailed"
  /\ runs' = [runs EXCEPT ![idx].status = "error"]
  /\ idx' = idx + 1
  /\ mpc' = "loop"
  /\ UNCHANGED <<benv, only, drop, now, saved, svars, dvars, bvars, injected>>

\* Lines 81-99: SynchronizeTable returned nil; the cursor of a table that has
\* a cursor column is set to time.Now().
MainCursor ==
  /\ mpc = "synced"
  /\ now' = now + 1
  /\ config' = IF table.Cursor.Column # ""
               THEN AdvanceCursor(config, idx, now + 1)
               ELSE config
  /\ runs' = [runs EXCEPT ![idx].status = "ok", ![idx].doneAt = now + 1]
  /\ idx' = idx + 1
  /\ mpc' = "loop"
  /\ UNCHANGED <<clickhouse, table, only, drop, saved, svars, dvars, bvars,
                 injected>>

\* Lines 102-106: after the loop, config.Save.
MainSave ==
  /\ mpc = "loop"
  /\ idx > Len(config.Tables)
  /\ \E ok \in BOOLEAN :
       /\ saved' = Append(saved, [config |-> config, ok |-> ok])
       /\ injected' = (injected \/ ~ok)
  /\ mpc' = "exit"
  /\ UNCHANGED <<benv, only, drop, idx, now, runs, svars, dvars, bvars>>

\* ------------------------------------- main.go: the goroutine of one batch
\* The connections of the pool are numbered from 1; 0 is no connection.
Connections == 1..PoolSize

ConnectionsHeld == Cardinality({i \in DOMAIN workers : workers[i].conn # 0})

FreeConnections == Connections \ {workers[i].conn : i \in DOMAIN workers}

\* What db.Acquire may hand out: the connections being interchangeable, the
\* free one of least number.
Acquirable == {c \in FreeConnections : \A d \in FreeConnections : c <= d}

\* A goroutine that goes on to its next statement whatever the last one
\* returned.
StepAfterIgnoringErrors(step, ok) ==
  CASE step = "acquire" -> "mktemp"
    [] step = "mktemp" -> "copy"
    [] step = "copy" -> "move"
    [] step = "move" -> "done"

\* Lines 140-166: where the goroutine goes after a step; only the failures
\* of Acquire and of MakeTemporaryTable make it return.
StepAfter(step, ok) ==
  CASE step = "acquire" -> IF ok THEN "mktemp" ELSE "done"
    [] step = "mktemp" -> IF ok THEN "copy" ELSE "done"
    [] step = "copy" -> "move"
    [] step = "move" -> "done"

\* What the goroutine did, and whether it held a connection for it.
Did(w, step) == [w EXCEPT !.steps = Append(@, [step |-> step, held |-> w.conn # 0])]

\* A goroutine that returns without giving its connection back.
ReleaseForgotten(w) == w

\* Line 145: the deferred conn.Release() of a goroutine that returns.
Release(w) == [Did(w, "release") EXCEPT !.conn = 0]

\* The goroutine has done `step`; when that was its last one, its deferred
\* calls run.
Goes(w, step, ok) ==
  LET next == StepAfter(step, ok)
      went == [w EXCEPT !.pc = next]
  IN IF next = "done" /\ w.conn # 0 THEN Release(went) ELSE went

WorkerStep(i, w) ==
  /\ workers' = [workers EXCEPT ![i] = w]
  /\ UNCHANGED <<benv, mvars, spc, closed, applied, bvars>>

\* Lines 140-145: db.Acquire; it waits while the pool has no free connection.
WorkerAcquire(i) ==
  /\ workers[i].pc = "acquire"
  /\ \/ \E c \in Acquirable :
          /\ WorkerStep(i, Goes(Did([workers[i] EXCEPT !.conn = c], "acquire"),
                                "acquire", TRUE))
          /\ UNCHANGED injected
     \/ /\ WorkerStep(i, Goes(Did([workers[i] EXCEPT !.failed = {"acquire"}],
                                   "acquire"),
                               "acquire", FALSE))
        /\ injected' = TRUE
  /\ UNCHANGED <<pg, temp>>

\* Lines 147-151 and 252-263: MakeTemporaryTable; on failure the goroutine
\* returns and the deferred Release runs.
WorkerMakeTemporaryTable(i) ==
  /\ workers[i].pc = "mktemp"
  /\ \E ok \in BOOLEAN :
       /\ injected' = (injected \/ ~ok)
       /\ temp' = IF ok THEN (i :> {}) @@ temp ELSE temp
       /\ WorkerStep(i, Goes(Did([workers[i] EXCEPT
                                    !.failed = IF ok THEN @ ELSE {"mktemp"}],
                                 "mktemp"),
                             "mktemp", ok))
  /\ UNCHANGED pg

\* Lines 153-161: CopyFrom; a failure is logged and the goroutine goes on.
WorkerCopyFrom(i) ==
  /\ workers[i].pc = "copy"
  /\ \E ok \in BOOLEAN :
       /\ injected' = (injected \/ ~ok)
       /\ temp' = IF ok /\ i \in DOMAIN temp
                  THEN [temp EXCEPT ![i] = Range(workers[i].batch)] ELSE temp
       /\ WorkerStep(i, Goes(Did([workers[i] EXCEPT
                                    !.failed = IF ok THEN @ ELSE {"copy"}],
                                 "copy"),
                             "copy", ok))
  /\ UNCHANGED pg

\* Lines 163-166: MoveTemporaryTable, then the deferred Release and Done.
WorkerMove(i) ==
  /\ workers[i].pc = "move"
  /\ \E ok \in BOOLEAN :
       /\ injected' = (injected \/ ~ok)
       /\ MoveTemporaryTable(table, i, ok)
       /\ WorkerStep(i, Goes(Did([workers[i] EXCEPT
                                    !.moved = TRUE,
                                    !.merged = MergeSucceeds(table, i, ok),
                                    !.failed = IF MergeSucceeds(table, i, ok) THEN @
                                               ELSE @ \cup {"move"}],
                                 "move"),
                             "move", ok))
  /\ UNCHANGED temp

\* -------------------------------------------------- the initial states
MainIdle ==
  /\ only = ""
  /\ drop = ""
  /\ mpc = "none"
  /\ idx = 0
  /\ now = 0
  /\ saved = <<>>
  /\ runs = <<>>

SyncIdle ==
  /\ spc = "idle"
  /\ closed = FALSE
  /\ workers = <<>>

\* A call of Batching on a table whose LastSync is the zero time (a full
\* scan), the callback recording what it is given.
FullScanTables ==
  {MakeTable("src", "dst", pa, pb, ccol, 0) :
     pa \in BOOLEAN, pb \in BOOLEAN, ccol \in {"", "src_v"}}

\* A call of Batching on a table with any cursor.
CursorTables ==
  {MakeTable("src", "dst", pa, pb, ccol, last) :
     pa \in BOOLEAN, pb \in BOOLEAN, ccol \in {"", "src_v"}, last \in 0..MaxTime}

BatchingCalled(tables, universe, n) ==
  /\ table \in tables
  /\ \E bs \in 1..MaxBatchSize : config = [Tables |-> <<table>>, BatchSize |-> bs]
  /\ \E S \in SourcesOf(table, universe, n) : clickhouse = [x \in {"src"} |-> S]
  /\ bpc = "start"
  /\ BatchingLocalsZero
  /\ injected = FALSE
  /\ MainIdle
  /\ SyncIdle
  /\ pg = <<>>
  /\ temp = <<>>
  /\ applied = <<>>

InitBatch == BatchingCalled(FullScanTables, PlainRows, MaxRows)

InitCursor == BatchingCalled(CursorTables, StampedRows, MaxCursorRows)

NextBatch ==
  \/ BatchingStart
  \/ BatchingDone
  \/ BatchingPage
  \/ BatchingScanFails
  \/ BatchingOnBatch

SpecBatch == InitBatch /\ [][NextBatch]_vars

SpecCursor == InitCursor /\ [][NextBatch]_vars

\* ------------------------- Batching on a source that loses rows meanwhile
\* Another process removes a row from the source table between the count
\* query of line 26 and a page query of line 44.
SourceDelete ==
  /\ bpc = "loop"
  /\ \E r \in clickhouse[table.Source] :
       clickhouse' = [clickhouse EXCEPT ![table.Source] = @ \ {r}]
  /\ UNCHANGED <<pg, temp, config, table, mvars, svars, applied, bvars, injected>>

NextShrink == NextBatch \/ SourceDelete

\* Batching is a running goroutine: it takes its next step whenever it has one.
SpecShrink == InitBatch /\ [][NextShrink]_vars /\ WF_vars(NextBatch)

\* ------------------------------------- MoveTemporaryTable, called directly
MergeTables == {MakeTable("src", "dst", pa, pb, "", 0) : pa \in BOOLEAN, pb \in BOOLEAN}

\* Rows the destination holds from an earlier run, and rows a batch brings.
OldRows == {<<a, b, 0>> : a \in 1..MaxMergeKey, b \in {1, 2}}
NewRows == {<<a, b, 1>> : a \in 1..MaxMergeKey, b \in {1, 2}}

InitMerge ==
  /\ table \in MergeTables
  /\ config = [Tables |-> <<table>>, BatchSize |-> 1]
  /\ clickhouse = [x \in {"src"} |-> {}]
  /\ \E D \in SubsetsUpTo(OldRows, MaxDestRows), S \in SubsetsUpTo(NewRows, MaxStaging) :
       /\ PrimaryIndexes(table) # {} => UniqueOn(D, PrimaryIndexes(table))
       /\ pg = [x \in {"dst"} |->
                  [exists |-> TRUE, pkey |-> PrimaryIndexes(table) # {}, rows |-> D]]
       /\ temp = [x \in {"dst_tmp"} |-> S]
  /\ applied = <<>>
  /\ bpc = "idle"
  /\ BatchingLocalsZero
  /\ injected = FALSE
  /\ MainIdle
  /\ SyncIdle

\* MoveTemporaryTable(table, conn, "dst_tmp") is called, once and again.
MergeCall ==
  /\ "dst_tmp" \in DOMAIN temp
  /\ Len(applied) < 2
  /\ \E ok \in BOOLEAN :
       /\ MoveTemporaryTable(table, "dst_tmp", ok)
       /\ injected' = (injected \/ ~ok)
       /\ applied' = Append(applied,
                       [before |-> pg["dst"].rows, after |-> pg'["dst"].rows,
                        ok |-> ok,
                        failed |-> ~MergeSucceeds(table, "dst_tmp", ok),
                        err |-> MoveTemporaryTableError(
                                  ~MergeSucceeds(table, "dst_tmp", ok))])
  /\ UNCHANGED <<benv, mvars, svars, temp, bvars>>

NextMerge == MergeCall

SpecMerge == InitMerge /\ [][NextMerge]_vars

\* ------------- MoveTemporaryTable for two batches, in one order and the other
\* Two destinations with the same rows, "dst" and "dst_rev", and the staging
\* tables "b1" and "b2" of two batches of one row each: the goroutines of
\* the batches reach line 163 in the order b1, b2 for "dst" and b2, b1 for
\* "dst_rev".
InitOrder ==
  /\ table \in MergeTables
  /\ config = [Tables |-> <<table>>, BatchSize |-> 1]
  /\ clickhouse = [x \in {"src"} |-> {}]
  /\ \E D \in SubsetsUpTo(OldRows, MaxDestRows), r1 \in NewRows, r2 \in NewRows :
       /\ PrimaryIndexes(table) # {} => UniqueOn(D, PrimaryIndexes(table))
       /\ pg = [x \in {"dst", "dst_rev"} |->
                  [exists |-> TRUE, pkey |-> PrimaryIndexes(table) # {}, rows |-> D]]
       /\ temp = [x \in {"b1", "b2"} |-> IF x = "b1" THEN {r1} ELSE {r2}]
  /\ applied = <<>>
  /\ bpc = "idle"
  /\ BatchingLocalsZero
  /\ injected = FALSE
  /\ MainIdle
  /\ SyncIdle

Merged(dest, tableName) ==
  \E n \in DOMAIN applied : applied[n].dest = dest /\ applied[n].staging = tableName

\* MoveTemporaryTable(table, conn, tableName) with `dest` as table.Destination.
MergeInto(dest, tableName) ==
  LET t == [table EXCEPT !.Destination = dest] IN
  \E ok \in BOOLEAN :
    /\ MoveTemporaryTable(t, tableName, ok)
    /\ injected' = (injected \/ ~ok)
    /\ applied' = Append(applied,
                    [before |-> pg[dest].rows, after |-> pg'[dest].rows, ok |-> ok,
                     failed |-> ~MergeSucceeds(t, tableName, ok),
                     err |-> MoveTemporaryTableError(~MergeSucceeds(t, tableName, ok)),
                     dest |-> dest, staging |-> tableName])

MergeForward ==
  /\ \E b \in {"b1", "b2"} :
       /\ ~Merged("dst", b)
       /\ b = "b2" => Merged("dst", "b1")
       /\ MergeInto("dst", b)
  /\ UNCHANGED <<benv, mvars, svars, temp, bvars>>

MergeBackward ==
  /\ \E b \in {"b1", "b2"} :
       /\ ~Merged("dst_rev", b)
       /\ b = "b1" => Merged("dst_rev", "b2")
       /\ MergeInto("dst_rev", b)
  /\ UNCHANGED <<benv, mvars, svars, temp, bvars>>

NextOrder == MergeForward \/ MergeBackward

SpecOrder == InitOrder /\ [][NextOrder]_vars

\* ------------------------------------------------------ the whole program
\* The rows of a source table of n rows (key k, cursor value k + 1).
PipelineRows(n) == {<<k, 1, k + 1>> : k \in 1..n}

FirstTables ==
  {MakeTable("t1", "d1", pa, FALSE, "src_v", last) :
     pa \in BOOLEAN, last \in {0, TicksPerSecond}}

SecondTables == {MakeTable("t2", "d2", TRUE, FALSE, ccol, 0) : ccol \in {"", "src_v"}}

\* A destination left by an earlier run of the program.
Existing(t) ==
  [exists |-> TRUE, pkey |-> PrimaryIndexes(t) # {}, rows |-> {<<1, 1, 0>>}]

Init ==
  /\ \E t1 \in FirstTables, t2 \in SecondTables, bs \in 1..MaxBatchSize,
        fresh \in BOOLEAN, n1 \in 0..MaxPipelineRows, n2 \in 0..1 :
       /\ config = [Tables |-> <<t1, t2>>, BatchSize |-> bs]
       /\ clickhouse = [x \in {"t1", "t2"} |->
                          IF x = "t1" THEN PipelineRows(n1) ELSE PipelineRows(n2)]
       /\ pg = [x \in {"d1", "d2"} |->
                  IF fresh THEN Absent
                  ELSE IF x = "d1" THEN Existing(t1) ELSE Existing(t2)]
       /\ runs = [i \in 1..2 |->
                    [status |-> "todo", extractErr |-> FALSE, doneAt |-> 0, ddl |-> <<>>,
                     batchesFailed |-> 0, batchesMerged |-> 0,
                     before |-> IF i = 1 THEN t1.Cursor.LastSync
                                ELSE t2.Cursor.LastSync]]
       /\ table = t1
  \* -only is not given, or names the second table
  /\ only \in {"", "t2"}
  \* -drop names no table, or the first one when its destination exists
  /\ drop \in {"", "t1"}
  /\ drop = "t1" => pg["d1"].exists
  /\ mpc = "loop"
  /\ idx = 1
  /\ now = MaxTime
  /\ saved = <<>>
  /\ SyncIdle
  /\ temp = <<>>
  /\ applied = <<>>
  /\ bpc = "idle"
  /\ BatchingLocalsZero
  /\ injected = FALSE

Next ==
  \/ MainSkip
  \/ MainBegin
  \/ SyncCreateFails
  \/ SyncCreateTable
  \/ BatchingStart
  \/ BatchingDone
  \/ BatchingPage
  \/ BatchingScanFails
  \/ ExtractorExit
  \/ SyncDispatch
  \/ SyncRangeEnd
  \/ SyncReturn
  \/ MainSyncFailed
  \/ MainCursor
  \/ MainSave
  \/ \E i \in DOMAIN workers : WorkerAcquire(i)
  \/ \E i \in DOMAIN workers : WorkerMakeTemporaryTable(i)
  \/ \E i \in DOMAIN workers : WorkerCopyFrom(i)
  \/ \E i \in DOMAIN workers : WorkerMove(i)

Spec == Init /\ [][Next]_vars

\* ------------------------------------- the program on a table with indexes
\* config.go lines 79-82: two indexes.
TwoIndexes ==
  << [Name |-> "by_b", Columns |-> <<"b">>], [Name |-> "by_v", Columns |-> <<"v">>] >>

IndexedTables ==
  {[MakeTable("t2", "d2", pa, FALSE, "src_v", 0) EXCEPT !.Indexes = TwoIndexes] :
     pa \in BOOLEAN}

\* The initial states of a run over a configuration of the one table `t`
\* whose source holds the rows S.
InitOne(t, S) ==
  /\ table = t
  /\ config \in [Tables : {<<t>>}, BatchSize : 1..MaxBatchSize]
  /\ clickhouse = [x \in {t.Source} |-> S]
  /\ pg \in {[x \in {t.Destination} |-> Absent], [x \in {t.Destination} |-> Existing(t)]}
  /\ runs = <<[status |-> "todo", extractErr |-> FALSE, doneAt |-> 0, ddl |-> <<>>,
               batchesFailed |-> 0, batchesMerged |-> 0,
               before |-> t.Cursor.LastSync]>>
  /\ only \in {"", "t0"}
  /\ drop \in {"", t.Source}
  /\ mpc = "loop"
  /\ idx = 1
  /\ now = MaxTime
  /\ saved = <<>>
  /\ SyncIdle
  /\ temp = <<>>
  /\ applied = <<>>
  /\ bpc = "idle"
  /\ BatchingLocalsZero
  /\ injected = FALSE

InitSchema == \E t \in IndexedTables, n \in 0..1 : InitOne(t, PipelineRows(n))

SpecSchema == InitSchema /\ [][Next]_vars

\* ------------------------- the program run again and again on one table
\* whose source is written to meanwhile
InitRuns ==
  \E n \in 0..1 : InitOne(MakeTable("t1", "d1", TRUE, FALSE, "src_v", 0), PipelineRows(n))

\* The rows written to the source since the first run began.
Written == {r \in clickhouse[table.Source] : r[3] > MaxTime}

\* Another process inserts a row into the source table while a run is in
\* progress; the row's cursor value is the time of the insert.
SourceWrite ==
  /\ mpc = "sync"
  /\ Cardinality(Written) < MaxWrites
  /\ clickhouse' = [clickhouse EXCEPT ![table.Source] =
                      @ \cup {<<Cardinality(@) + 1, 1, now>>}]
  /\ UNCHANGED <<config, table, mvars, svars, dvars, bvars, injected>>

\* Lines 21-47 of the next run: the program is started again with the same
\* flags and parses the configuration the last run saved.
MainRestart ==
  /\ mpc = "exit"
  /\ Len(saved) < MaxRuns
  /\ saved[Len(saved)].ok
  /\ config' = saved[Len(saved)].config
  /\ table' = saved[Len(saved)].config.Tables[1]
  /\ runs' = [i \in DOMAIN runs |->
                 [status |-> "todo", extractErr |-> FALSE, doneAt |-> 0, ddl |-> <<>>,
                  batchesFailed |-> 0, batchesMerged |-> 0,
                  before |-> saved[Len(saved)].config.Tables[i].Cursor.LastSync]]
  /\ mpc' = "loop"
  /\ idx' = 1
  /\ UNCHANGED <<clickhouse, only, drop, now, saved, svars, dvars, bvars, injected>>

NextRuns == Next \/ SourceWrite \/ MainRestart

SpecRuns == InitRuns /\ [][NextRuns]_vars

\* --------------------------- the program on a table of more batches than
\* the channel and the connection pool can hold together
BurstRows == PipelineRows(ChannelCapacity + PoolSize + 1)

InitBurst == InitOne(MakeTable("t1", "d1", TRUE, FALSE, "src_v", 0), BurstRows)

SpecBurst == InitBurst /\ [][Next]_vars

\* ------------------- the program under fair scheduling, on one table whose
\* source loses rows meanwhile
\* The steps of main's own goroutine.
MainRuns == MainSkip \/ MainBegin \/ MainSyncFailed \/ MainCursor \/ MainSave

\* The steps of the goroutine that called SynchronizeTable; the receive of
\* line 133 is its half of SyncDispatch.
DispatcherRuns ==
  SyncCreateFails \/ SyncCreateTable \/ SyncDispatch \/ SyncRangeEnd \/ SyncReturn

\* The steps of the extraction goroutine of lines 118-130; the send of line
\* 121 is its half of SyncDispatch.
ExtractorRuns ==
  \/ BatchingStart
  \/ BatchingDone
  \/ BatchingPage
  \/ BatchingScanFails
  \/ SyncDispatch
  \/ ExtractorExit

\* The steps of the goroutine of the i-th batch, lines 136-166.
WorkerRuns(i) ==
  /\ i \in DOMAIN workers
  /\ \/ WorkerAcquire(i)
     \/ WorkerMakeTemporaryTable(i)
     \/ WorkerCopyFrom(i)
     \/ WorkerMove(i)

\* One goroutine is started per batch, and no batch is empty.
Goroutines == 1..MaxPipelineRows

\* The Go scheduler runs every goroutine that can run, and the pool hands a
\* connection to every goroutine that waits for one.
FairScheduling ==
  /\ WF_vars(MainRuns)
  /\ WF_vars(DispatcherRuns)
  /\ WF_vars(ExtractorRuns)
  /\ \A i \in Goroutines : SF_vars(WorkerRuns(i))

InitLive ==
  \E n \in 1..MaxPipelineRows :
    InitOne(MakeTable("t1", "d1", TRUE, FALSE, "src_v", 0), PipelineRows(n))

NextLive == Next \/ SourceDelete

SpecLive == InitLive /\ [][NextLive]_vars /\ FairScheduling

\* ------------------------------------------------------- claims on Batching
RECURSIVE Flatten(_)
Flatten(bs) == IF bs = <<>> THEN <<>> ELSE bs[1] \o Flatten(Tail(bs))

\* The rows handed to onBatch so far, in emission order.
EmittedRows == Flatten(emitted)

SourceRows == clickhouse[table.Source]

Occurrences(s, r) == Cardinality({i \in 1..Len(s) : s[i] = r})

SortedOn(s, i) == \A j \in 1..(Len(s) - 1) : s[j][i] <= s[j + 1][i]

BatchSizes == [i \in 1..Len(emitted) |-> Len(emitted[i])]

C2_ExactlyOnce ==
  /\ \A r \in SourceRows : Occurrences(EmittedRows, r) <= 1
  /\ (bpc = "returned" /\ ~bret.err) =>
       \A r \in Select(table, query) : Occurrences(EmittedRows, r) = 1

\* C3: the cursor filter is part of the count query and of every page query
\* exactly when the table has a cursor column and LastSync is not zero; with
\* the filter only rows whose cursor value is greater than LastSync are
\* emitted; without it every source row is emitted by a call that returns
\* without error.
C3_CursorGating ==
  LET gated == table.Cursor.Column # "" /\ ~IsZero(table.Cursor.LastSync) IN
  /\ \A i \in issued : i.query.where <=> gated
  /\ gated =>
       \A j \in 1..Len(EmittedRows) :
          EmittedRows[j][SourceIndex(table, table.Cursor.Column)] > table.Cursor.LastSync
  /\ (~gated /\ bpc = "returned" /\ ~bret.err) =>
       \A r \in SourceRows : Occurrences(EmittedRows, r) >= 1

\* ------------------------------------------------ claims on the pipeline
LastSyncOf(i) == config.Tables[i].Cursor.LastSync

Finished(i) == runs[i].status \in {"ok", "error"}

\* C4: when the extraction of a table failed, the table's iteration ends
\* with an error and the table's LastSync is what it was before the run.
C4_ExtractionFailureAborts ==
  \A i \in DOMAIN runs :
    (runs[i].extractErr /\ Finished(i)) =>
      /\ runs[i].status = "error"
      /\ LastSyncOf(i) = runs[i].before

\* C5: no merge statement is issued by a worker whose bulk copy failed.
C5_NoMergeAfterFailedCopy ==
  \A i \in DOMAIN workers : "copy" \in workers[i].failed => ~workers[i].moved

\* C6: when SynchronizeTable has returned, every batch it was handed has
\* been worked to the end, and every batch none of whose own steps failed is
\* merged and its rows are in the destination, whatever happened to the
\* other batches; a table some of whose batches failed still ends without
\* error, and its cursor (when it has one) is advanced to the time of
\* completion.
C6_BatchFailureIsolation ==
  /\ mpc = "synced" =>
       /\ Len(workers) = Len(emitted)
       /\ \A i \in DOMAIN workers :
            /\ workers[i].pc = "done"
            /\ workers[i].batch = emitted[i]
            /\ workers[i].failed = {} =>
                 /\ workers[i].merged
                 /\ Range(workers[i].batch) \subseteq pg[table.Destination].rows
  /\ mpc = "syncfailed" => runs[idx].batchesFailed = 0
  /\ \A i \in DOMAIN runs :
       (runs[i].batchesFailed > 0 /\ Finished(i)) =>
         /\ runs[i].status = "ok"
         /\ config.Tables[i].Cursor.Column # "" =>
              (LastSyncOf(i) = runs[i].doneAt /\ runs[i].doneAt > runs[i].before)

\* C6 witness: a finished table one of whose batches failed and another was
\* merged, the table ending without error and its cursor advanced.
C6_Witness ==
  \E i \in DOMAIN runs :
    /\ runs[i].status = "ok"
    /\ runs[i].batchesFailed > 0
    /\ runs[i].batchesMerged > 0
    /\ config.Tables[i].Cursor.Column # ""
    /\ LastSyncOf(i) = runs[i].doneAt
    /\ LastSyncOf(i) # runs[i].before

\* C7: the LastSync of a table that is still to do, running, skipped or
\* failed is the one the run started with; the LastSync of a table that
\* ended without error is the time of its completion (when it has a cursor
\* column); the configuration is saved once, when the loop is over, with the
\* cursors as they then are, and never before.
C7_CursorLifecycle ==
  /\ \A i \in DOMAIN runs :
       /\ runs[i].status \in {"todo", "running", "skipped", "error"} =>
            LastSyncOf(i) = runs[i].before
       /\ runs[i].status = "ok" =>
            LastSyncOf(i) = IF config.Tables[i].Cursor.Column # ""
                            THEN runs[i].doneAt ELSE runs[i].before
  /\ Len(saved) = IF mpc = "exit" THEN 1 ELSE 0
  /\ mpc = "exit" =>
       /\ saved[1].config = config
       /\ \A i \in DOMAIN runs : runs[i].status \in {"skipped", "error", "ok"}

\* C7 witness: the run is over, one table was skipped or failed and kept its
\* LastSync, another ended without error and has a new one, saved once.
C7_Witness ==
  /\ mpc = "exit"
  /\ Len(saved) = 1
  /\ \E i, j \in DOMAIN runs :
       /\ runs[i].status \in {"skipped", "error"}
       /\ LastSyncOf(i) = runs[i].before
       /\ runs[j].status = "ok"
       /\ config.Tables[j].Cursor.Column # ""
       /\ LastSyncOf(j) = runs[j].doneAt
       /\ LastSyncOf(j) # runs[j].before

\* --------------------------------------------------- claims on the merge
Staging == temp["dst_tmp"]

KeyIndexes == DestinationIndexes(table, GetPrimaryKey(table))

StagingKeys == {KeyOf(r, KeyIndexes) : r \in Staging}

WithKey(rows, k) == {r \in rows : KeyOf(r, KeyIndexes) = k}

\* C8: a second successful MoveTemporaryTable with the same staging content
\* leaves the destination as the first one left it, with one row per
\* primary key, the rows of the staged keys being staging rows.
C8_IdempotentMerge ==
  (Len(applied) >= 2 /\ ~applied[1].failed /\ ~applied[2].failed) =>
    /\ applied[2].after = applied[1].after
    /\ UniqueOn(applied[2].after, KeyIndexes)
    /\ \A k \in StagingKeys : WithKey(applied[2].after, k) \subseteq Staging

\* C9: with two or more staging rows of the same primary key, the merge
\* statement does not fail when the store executes it, leaves exactly one
\* destination row for that key, and the same staging content yields the
\* same destination row in every application.
C9_Deduplication ==
  \A n \in DOMAIN applied :
    (applied[n].ok /\ pg["dst"].pkey) =>
      /\ ~applied[n].failed
      /\ \A k \in StagingKeys :
           Cardinality(WithKey(Staging, k)) >= 2 =>
             /\ Cardinality(WithKey(applied[n].after, k)) = 1
             /\ (~applied[1].failed) =>
                  WithKey(applied[n].after, k) = WithKey(applied[1].after, k)

\* C10: after a successful MoveTemporaryTable (the table has a primary key),
\* every staged key has exactly one destination row and it is a staging row
\* of that key, every destination row of another key is as it was, and no
\* other row appears.
C10_UpsertSemantics ==
  \A n \in DOMAIN applied :
    ~applied[n].failed =>
      /\ GetPrimaryKey(table) # <<>>
      /\ \A k \in StagingKeys :
           /\ Cardinality(WithKey(applied[n].after, k)) = 1
           /\ WithKey(applied[n].after, k) \subseteq WithKey(Staging, k)
      /\ \A r \in applied[n].before :
           KeyOf(r, KeyIndexes) \notin StagingKeys => r \in applied[n].after
      /\ \A r \in applied[n].after :
           KeyOf(r, KeyIndexes) \in StagingKeys \/ r \in applied[n].before

\* C10 witness: destination [(1,a,t0),(2,b,t0)] merged with staging
\* [(1,a2,t1),(3,c,t1)] on key `a` gives [(1,a2,t1),(2,b,t0),(3,c,t1)].
C10_Witness ==
  /\ Len(applied) >= 1
  /\ ~applied[1].failed
  /\ KeyIndexes = {1}
  /\ applied[1].before = {<<1, 1, 0>>, <<2, 2, 0>>}
  /\ Staging = {<<1, 2, 1>>, <<3, 1, 1>>}
  /\ applied[1].after = {<<1, 2, 1>>, <<2, 2, 0>>, <<3, 1, 1>>}

\* C11: when the table declares no primary-key column, a MoveTemporaryTable
\* the store is willing to execute does not fail and leaves the destination
\* with its former rows and every staging row.
C11_AppendOnlyWithoutKey ==
  \A n \in DOMAIN applied :
    (GetPrimaryKey(table) = <<>> /\ applied[n].ok) =>
      /\ ~applied[n].failed
      /\ applied[n].after = applied[n].before \cup Staging

\* C13: a MoveTemporaryTable whose merge statement failed returns an error
\* to its caller.
C13_MergeErrorReturned ==
  \A n \in DOMAIN applied : applied[n].failed => applied[n].err

\* ------------------------------------------- claims on the schema and join
\* The statements CreatePostgresTable has to send for a table, in order.
SchemaOf(t) ==
  <<"CREATE TABLE">>
    \o (IF Len(GetPrimaryKey(t)) > 0 THEN <<"ADD PRIMARY KEY">> ELSE <<>>)
    \o [i \in 1..Len(t.Indexes) |-> "CREATE INDEX"]

\* C12: in the step that ends CreatePostgresTable: when CREATE TABLE failed
\* nothing else was sent, SynchronizeTable returns the error, and neither
\* Batching nor a worker nor a store has moved; otherwise ADD PRIMARY KEY
\* (when there is a primary key) and CREATE INDEX for every index were sent
\* whatever their answers, and the extraction goroutine is started.
C12_SchemaEnsure ==
  [][(mpc = "sync" /\ spc = "create" /\ spc' # "create") =>
       LET d == runs'[idx].ddl IN
       IF ~d[1].ok
       THEN /\ Len(d) = 1
            /\ mpc' = "syncfailed"
            /\ spc' = "idle"
            /\ UNCHANGED <<clickhouse, pg, temp, workers, bvars>>
       ELSE /\ [i \in 1..Len(d) |-> d[i].stmt] = SchemaOf(table)
            /\ \A i \in 1..Len(table.Indexes) :
                 d[Len(d) - Len(table.Indexes) + i].name = table.Indexes[i].Name
            /\ mpc' = "sync"
            /\ spc' = "range"
            /\ bpc' = "start"]_vars

\* C12 witness: ADD PRIMARY KEY and the first CREATE INDEX failed, the second
\* CREATE INDEX was still sent, and the table was extracted and ended
\* without error.
C12_Witness ==
  \E i \in DOMAIN runs :
    /\ runs[i].status = "ok"
    /\ ~runs[i].extractErr
    /\ runs[i].batchesMerged + runs[i].batchesFailed > 0
    /\ Len(runs[i].ddl) = 4
    /\ ~runs[i].ddl[2].ok
    /\ ~runs[i].ddl[3].ok
    /\ runs[i].ddl[4] = Statement("CREATE INDEX", "by_v", TRUE)

Running == {i \in DOMAIN workers : workers[i].pc # "done"}

\* C14: when SynchronizeTable has returned without error the batches channel
\* is closed, the extraction goroutine is over and every goroutine started
\* for a batch is over; and while a goroutine of a batch is still running,
\* main is inside SynchronizeTable for that table and the table's LastSync
\* is the one the run started with.
C14_JoinBarrier ==
  /\ mpc = "synced" =>
       /\ spc = "idle"
       /\ closed
       /\ bpc = "exited"
       /\ Running = {}
  /\ Running # {} =>
       /\ mpc = "sync"
       /\ runs[idx].status = "running"
       /\ LastSyncOf(idx) = runs[idx].before

\* C14 witness: SynchronizeTable has returned after two batches, both of
\* them worked to the end, one of them merged.
C14_Witness ==
  /\ mpc = "synced"
  /\ closed
  /\ Len(workers) = 2
  /\ Running = {}
  /\ \E i \in DOMAIN workers : workers[i].merged

\* C15: the batches that were extracted and whose goroutine has not ended
\* are never more than the channel's capacity plus the size of the pool, and
\* when they are that many the extractor's send in onBatch cannot be taken.
C15_Backpressure ==
  /\ Cardinality(Running) <= ChannelCapacity + PoolSize
  /\ (bpc = "onBatch" /\ Cardinality(Running) >= ChannelCapacity + PoolSize) =>
       ~ENABLED SyncDispatch

\* C16: when the merges of two batches have been executed in one order on a
\* destination and in the other order on an equal destination, and no
\* statement was refused, the two destinations hold the same rows.
C16_OrderIndependence ==
  (Len(applied) = 4 /\ ~injected) => pg["dst"].rows = pg["dst_rev"].rows

\* ------------------------------------------ claims on the batch goroutines
StepNames(w) == [k \in 1..Len(w.steps) |-> w.steps[k].step]

IsPrefix(s, t) == Len(s) <= Len(t) /\ s = SubSeq(t, 1, Len(s))

WholeBatch == <<"acquire", "mktemp", "copy", "move", "release">>

\* C17: what a goroutine has done for its batch is a beginning of: acquire,
\* create the staging table, copy, merge, release; it is the whole of it once
\* the goroutine is over, unless Acquire failed (then it did nothing else) or
\* MakeTemporaryTable failed (then it only released the connection).
C17_StepOrder ==
  \A i \in DOMAIN workers :
    LET w == workers[i] IN
    /\ "acquire" \in w.failed => StepNames(w) = <<"acquire">> /\ w.pc = "done"
    /\ "mktemp" \in w.failed =>
         StepNames(w) = <<"acquire", "mktemp", "release">> /\ w.pc = "done"
    /\ w.failed \cap {"acquire", "mktemp"} = {} =>
         /\ IsPrefix(StepNames(w), WholeBatch)
         /\ w.pc = "done" => StepNames(w) = WholeBatch
    /\ w.moved <=> \E k \in 1..Len(w.steps) : w.steps[k].step = "move"

\* C17 witness: one goroutine did all five steps and merged its batch,
\* another stopped at the failure of MakeTemporaryTable and only released
\* its connection.
C17_Witness ==
  \E i, j \in DOMAIN workers :
    /\ workers[i].pc = "done"
    /\ StepNames(workers[i]) = WholeBatch
    /\ workers[i].merged
    /\ workers[j].failed = {"mktemp"}
    /\ StepNames(workers[j]) = <<"acquire", "mktemp", "release">>

Holding == {i \in DOMAIN workers : workers[i].conn # 0}

\* The state part of the connection discipline.
ConnectionsInOrder ==
  /\ ConnectionsHeld <= PoolSize
  /\ \A i \in Holding : workers[i].conn \in Connections
  /\ \A i, j \in Holding : workers[i].conn = workers[j].conn => i = j
  /\ \A i \in DOMAIN workers :
       LET w == workers[i] IN
       /\ w.pc \in {"mktemp", "copy", "move"} => w.conn # 0
       /\ w.pc \in {"acquire", "done"} => w.conn = 0
       /\ \A k \in 1..Len(w.steps) :
            w.steps[k].step \in {"mktemp", "copy", "move", "release"} => w.steps[k].held
       /\ Cardinality({k \in 1..Len(w.steps) :
                         w.steps[k].step = "acquire" /\ w.steps[k].held}) <= 1
       /\ (w.pc = "done" /\ "acquire" \notin w.failed) =>
            w.steps[Len(w.steps)].step = "release"
  /\ DOMAIN temp \subseteq DOMAIN workers
  /\ mpc # "sync" => Holding = {}

\* The step part: a goroutine keeps the connection it acquired until it
\* releases it, and a query reaches ClickHouse only in a step of Batching,
\* which leaves the batch goroutines and PostgreSQL as they are.
ConnectionsKept ==
  /\ \A i \in DOMAIN workers :
       (i \in DOMAIN workers' /\ workers[i].conn # 0 /\ workers'[i].conn # 0) =>
         workers'[i].conn = workers[i].conn
  /\ issued' # issued =>
       /\ bpc \in {"start", "loop"} \/ issued' = {}
       /\ UNCHANGED <<pg, temp>> \/ issued' = {}

\* C18: the connections held are distinct connections of the pool, one per
\* goroutine from its Acquire to its Release; staging table, copy and merge
\* are done while holding it; a goroutine that is over holds none, so none
\* is held once SynchronizeTable has returned; and only Batching sends
\* queries to ClickHouse.
C18_ConnectionDiscipline == []ConnectionsInOrder /\ [][ConnectionsKept]_vars

\* C18 witness: two goroutines hold the two connections of the pool at the
\* same time, one of them having failed its copy.
C18_Witness ==
  \E i, j \in Holding :
    /\ i # j
    /\ workers[i].conn # workers[j].conn
    /\ "copy" \in workers[i].failed
    /\ workers[j].pc = "move"

\* ------------------------------------------------- claims on repeated runs
\* C19: after the last of the runs, none of whose operations failed and
\* none of which skipped or dropped the table, every source row whose cursor
\* value is greater than the first LastSync (the zero time) and not greater
\* than the LastSync the last run started with (the row was there during
\* the whole of that run) is in the destination.
C19_EventualConsistency ==
  (mpc = "exit" /\ Len(saved) = MaxRuns /\ ~injected /\ only = "" /\ drop = "") =>
    \A r \in clickhouse["t1"] :
      (r[3] > 0 /\ r[3] <= runs[1].before) => r \in pg["d1"].rows

\* ------------------------------------------ claims on a shrinking source
\* C20: Batching eventually returns, also when rows are removed from the
\* source between the count query and the page queries.
C20_ExtractionTerminates == <>(bpc = "returned")

\* ------------------------------------------- claims on the fair pipeline
\* C21: under fair scheduling, with every store operation terminating, a
\* call of SynchronizeTable always eventually returns.
C21_PipelineReturns == (spc # "idle") ~> (spc = "idle")

====
